---- MODULE Spec2Model ----
(***************************************************************************)
(* The service loader of blueoak-server (createLoader): the registry maps, *)
(* external dependency resolution, the dependency groups and the grouped   *)
(* initialisation driven by async.eachSeries / async.each.                 *)
(*                                                                         *)
(* Identifiers are sequences of one-character strings, so that             *)
(* normalizeServiceName is computed character by character as the code's   *)
(* three regular-expression passes compute it.                             *)
(***************************************************************************)
EXTENDS Integers, Sequences, FiniteSets, TLC

\* ------------------------------------------------------------------ bounds
\* how many inject calls and how many init calls one behaviour may hold
MaxInjects == 1
MaxRuns == 1
\* how many initConsumers calls one behaviour may hold
MaxConsumerRuns == 1
\* the longest string, and the longest list of words, handed to
\* normalizeServiceName
MaxLen == 3
MaxWords == 2

\* ------------------------------------------------------- name normalisation
UpperChars == {"A", "B", "C", "D", "E", "F", "G", "H", "I", "J", "K", "L", "M",
               "N", "O", "P", "Q", "R", "S", "T", "U", "V", "W", "X", "Y", "Z"}

LowerOf ==
    [c \in UpperChars |->
        CASE c = "A" -> "a" [] c = "B" -> "b" [] c = "C" -> "c" [] c = "D" -> "d"
          [] c = "E" -> "e" [] c = "F" -> "f" [] c = "G" -> "g" [] c = "H" -> "h"
          [] c = "I" -> "i" [] c = "J" -> "j" [] c = "K" -> "k" [] c = "L" -> "l"
          [] c = "M" -> "m" [] c = "N" -> "n" [] c = "O" -> "o" [] c = "P" -> "p"
          [] c = "Q" -> "q" [] c = "R" -> "r" [] c = "S" -> "s" [] c = "T" -> "t"
          [] c = "U" -> "u" [] c = "V" -> "v" [] c = "W" -> "w" [] c = "X" -> "x"
          [] c = "Y" -> "y" [] c = "Z" -> "z"]

\* the characters matched by the class [-_\s]
SepChars == {"-", "_", " "}

\* str.replace(/([A-Z])/g, '-$1') finding no capital
DashCapitalsNone(s) == s

\* str.replace(/([A-Z])/g, '-$1')
RECURSIVE DashCapitals(_)
DashCapitals(s) ==
    IF s = <<>> THEN <<>>
    ELSE IF Head(s) \in UpperChars
         THEN <<"-", Head(s)>> \o DashCapitals(Tail(s))
         ELSE <<Head(s)>> \o DashCapitals(Tail(s))

\* .replace(/[-_\s]+/g, '-')
RECURSIVE CollapseSeparators(_)
CollapseSeparators(s) ==
    IF s = <<>> THEN <<>>
    ELSE IF Head(s) \in SepChars
         THEN IF Tail(s) # <<>> /\ Head(Tail(s)) \in SepChars
              THEN CollapseSeparators(Tail(s))
              ELSE <<"-">> \o CollapseSeparators(Tail(s))
         ELSE <<Head(s)>> \o CollapseSeparators(Tail(s))

\* .toLowerCase()
ToLowerCase(s) ==
    [i \in 1..Len(s) |-> IF s[i] \in UpperChars THEN LowerOf[s[i]] ELSE s[i]]

\* normalizeServiceName replacing the separators before the capitals
normalizeServiceNameCollapseFirst(s) ==
    ToLowerCase(DashCapitals(CollapseSeparators(s)))

normalizeServiceName(s) ==
    ToLowerCase(CollapseSeparators(DashCapitals(s)))

normalizeServiceNames(names) ==
    [i \in 1..Len(names) |-> normalizeServiceName(names[i])]

\* ------------------------------------------------------------ identifiers
db == <<"d", "b">>
cache == <<"c", "a", "c", "h", "e">>
api == <<"a", "p", "i">>
appLog == <<"a", "p", "p", "L", "o", "g">>
app_log == <<"a", "p", "p", "-", "l", "o", "g">>
web == <<"w", "e", "b">>
ext == <<"e", "x", "t">>
base == <<"b", "a", "s", "e">>
ghost == <<"g", "h", "o", "s", "t">>
auth == <<"a", "u", "t", "h">>
cors == <<"c", "o", "r", "s">>
mw == <<"m", "w">>
mwx == <<"m", "w", ".", "x">>
obj1 == <<"o", "1">>

\* ---------------------------------------------------------------- values
\* what a registry slot or an init argument can hold
Module(name) == [t |-> "module", v |-> name]
Object(o) == [t |-> "object", v |-> o]
Undefined == [t |-> "undefined", v |-> <<>>]

EmptyMap == [k \in {} |-> Undefined]
Has(map, k) == k \in DOMAIN map
Lookup(map, k) == IF k \in DOMAIN map THEN map[k] ELSE Undefined
Put(map, k, v) == [x \in DOMAIN map \cup {k} |-> IF x = k THEN v ELSE map[x]]
Range(s) == {s[i] : i \in 1..Len(s)}

\* ----------------------------------------------------------------- errors
\* An error object: its kind, the identifiers its message names, and the
\* opaque value a node or hook raised.  NodeErrs are the values a node's
\* init throws or passes to its callback; the loader never reads them.
NoErr == [kind |-> "none", ids |-> {}, val |-> "none"]
LoadError(depId, id) == [kind |-> "load", ids |-> {depId, id}, val |-> "none"]
GraphError(unplaced) == [kind |-> "cycle", ids |-> unplaced, val |-> "none"]
HookError == [kind |-> "hook", ids |-> {}, val |-> "hook"]
NodeErrs == {[kind |-> "node", ids |-> {}, val |-> v] : v \in {"e1", "e2"}}
TypeError == [kind |-> "type", ids |-> {}, val |-> "none"]

\* ------------------------------------------------------------ environment
\* The modules the loader can read.  Each has the parameter names of its
\* init (without the trailing callback), whether init takes a trailing
\* callback, and what its getDependencies hook returns ("none": no hook,
\* "throws": the hook throws).
Mod(params, isAsync, hook) == [params |-> params, isAsync |-> isAsync, hook |-> hook]
NoHook == [kind |-> "none", deps |-> <<>>]
Hook(deps) == [kind |-> "list", deps |-> deps]
ThrowingHook == [kind |-> "throws", deps |-> <<>>]

ModuleFiles ==
    (db :> Mod(<<>>, FALSE, NoHook))
    @@ (app_log :> Mod(<<>>, TRUE, NoHook))
    @@ (cache :> Mod(<<>>, TRUE, Hook(<<db>>)))
    @@ (api :> Mod(<<appLog>>, TRUE, NoHook))
    @@ (web :> Mod(<<ext>>, FALSE, NoHook))
    @@ (ext :> Mod(<<base>>, TRUE, ThrowingHook))
    @@ (base :> Mod(<<>>, FALSE, NoHook))
    @@ (auth :> Mod(<<db>>, FALSE, NoHook))
    @@ (cors :> Mod(<<>>, TRUE, NoHook))

\* the service directories: the __id of every .js file of each
ServiceDirs ==
    [d \in {"services", "plugins"} |->
        CASE d = "services" -> <<db, app_log, cache, api>>
          [] d = "plugins" -> <<web>>]

\* the consumer directories: the file names (without .js) of each
ConsumerDirs ==
    [d \in {"middleware", "handlers"} |->
        CASE d = "middleware" -> <<auth>>
          [] d = "handlers" -> <<cors, auth>>]

\* the consumer directory and prefix registered before a run of init
Prefixes == {mw}
ServiceRunConsumerDirs == {"middleware"}

\* the prefixes given to loadConsumers and initConsumers (the lists of
\* names given to initConsumers are ConsumerLists)
ConsumerPrefixes == {mw, mwx}

\* the modules subRequire finds in the node load path
ExternalModules == {ext, base}

\* what callers pass to inject: raw identifiers, objects, dependency lists
\* (NoDeps: the argument is left out)
Omitted == [given |-> FALSE, list |-> <<>>]
Given(list) == [given |-> TRUE, list |-> list]
InjectIds == {ext, appLog}
InjectObjects == {obj1}
InjectDeps == {Omitted, Given(<<api>>)}
ConsumerLists == {Omitted, Given(<<cors, auth>>), Given(<<auth, ghost>>)}

\* ------------------------------------------------------------------ state
VARIABLES
    moduleMap,      \* id -> module
    dependencyMap,  \* id -> list of dependency ids
    depKeys,        \* the keys of dependencyMap in insertion order (for ... in)
    injectedMap,    \* id -> injected object
    consumerMap,    \* prefix.id -> consumer module
    consumerKeys,   \* the keys of consumerMap in insertion order (for ... in)
    requireCache,   \* the modules subRequire holds in its cache
    consumerPrefix, \* history: the prefix each consumer was registered under
    bare,           \* history: ids last injected without a dependency list
                    \* and not registered again since
    phase,          \* of the current run of init: idle, executing, done, failed, thrown
    initList,       \* the forced order of the run, or NoList
    depGroups,      \* the groups async.eachSeries walks
    cur,            \* index of the group being executed
    status,         \* status[g][n]: pending, running, ok, failed, skipped
    args,           \* args[g][n]: the arguments n's init was applied to
    cbCount,        \* how often the run's completion callback was invoked
    cbErr,          \* the error argument of its last invocation
    escaped,        \* an exception left init: none, caller, inner
    nodeErr,        \* history: nodeErr[g][n] is the error n's init raised
    firstErr,       \* history: the first error raised in the run
    firstFailed,    \* history: the node that raised it, if a node did
    late,           \* history: completions after the group had failed
    loaded,         \* history: the external modules the run loaded, in order
    nInjects,       \* inject calls so far
    nRuns,          \* init calls so far
    cPhase,         \* of the current run of initConsumers: idle, executing,
                    \* done, failed, thrown
    cPrefix,        \* its prefix argument
    cGiven,         \* its initList argument
    cList,          \* depList: the consumer keys async.eachSeries walks
    cStatus,        \* cStatus[k]: pending, running, ok, failed, crashed
    cArgs,          \* cArgs[k]: the arguments the k-th init was applied to
    cCbCount,       \* how often its completion callback was invoked
    cCbErr,         \* the error argument of its last invocation
    cRaised,        \* history: the error the failing consumer raised
    nConsumerRuns,  \* initConsumers calls so far
    str,            \* the string handed to normalizeServiceName
    stage,          \* how often normalizeServiceName was applied to it
    once,           \* normalizeServiceName(str)
    twice,          \* normalizeServiceName(once)
    words,          \* a name as its list of words
    spelled         \* spelled[style]: normalizeServiceName of a spelling

registry == <<moduleMap, dependencyMap, depKeys, injectedMap, consumerMap,
              consumerKeys, requireCache, consumerPrefix, bare>>
runState == <<phase, initList, depGroups, cur, status, args, cbCount,
              cbErr, escaped, nodeErr, firstErr, firstFailed, late, loaded>>
consumerRun == <<cPhase, cPrefix, cGiven, cList, cStatus, cArgs, cCbCount, cCbErr,
                 cRaised, nConsumerRuns>>
normState == <<str, stage, once, twice, words, spelled>>
vars == <<registry, runState, nInjects, nRuns, consumerRun, normState>>

NoNode == <<>>

\* createLoader(): empty maps, no run
InitLoader ==
    /\ moduleMap = EmptyMap
    /\ dependencyMap = EmptyMap
    /\ depKeys = <<>>
    /\ injectedMap = EmptyMap
    /\ consumerMap = EmptyMap
    /\ consumerKeys = <<>>
    /\ requireCache = {}
    /\ consumerPrefix = EmptyMap
    /\ bare = {}
    /\ phase = "idle"
    /\ initList = Omitted
    /\ depGroups = <<>>
    /\ cur = 0
    /\ status = <<>>
    /\ args = <<>>
    /\ cbCount = 0
    /\ cbErr = NoErr
    /\ escaped = "none"
    /\ nodeErr = <<>>
    /\ firstErr = NoErr
    /\ firstFailed = NoNode
    /\ late = 0
    /\ loaded = <<>>
    /\ nInjects = 0
    /\ nRuns = 0
    /\ cPhase = "idle"
    /\ cPrefix = <<>>
    /\ cGiven = Omitted
    /\ cList = <<>>
    /\ cStatus = <<>>
    /\ cArgs = <<>>
    /\ cCbCount = 0
    /\ cCbErr = NoErr
    /\ cRaised = NoErr
    /\ nConsumerRuns = 0

\* no string was handed to normalizeServiceName
NoSpelling == [k \in {} |-> <<>>]
InitNoString ==
    /\ str = <<>>
    /\ stage = 0
    /\ once = <<>>
    /\ twice = <<>>
    /\ words = <<>>
    /\ spelled = NoSpelling

Init == InitLoader /\ InitNoString

\* dependencyMap[id] = deps, keeping the key's place when it exists
SetDeps(dm, keys, id, deps) ==
    [dm |-> Put(dm, id, deps),
     keys |-> IF id \in DOMAIN dm THEN keys ELSE Append(keys, id)]

\* async.each is still iterating over the current group
Iterating ==
    /\ cur > 0 /\ escaped = "none"
    /\ \E n \in depGroups[cur] : status[cur][n] = "pending"

\* a run is started only while no other run is executing, and never from
\* inside the synchronous loop of async.each
Quiet == phase # "executing" /\ ~Iterating /\ cPhase # "executing"

\* the startup order of the loader: modules and consumers are loaded, and
\* objects injected, before the services are initialised
Startup == Quiet /\ nRuns = 0

\* inject(id, obj, deps)
Inject(id, obj, deps) ==
    /\ Startup
    /\ nInjects < MaxInjects
    /\ LET normId == normalizeServiceName(id)
           r == IF deps.given
                THEN SetDeps(dependencyMap, depKeys, normId, normalizeServiceNames(deps.list))
                ELSE [dm |-> dependencyMap, keys |-> depKeys]
       IN /\ injectedMap' = Put(injectedMap, normId, Object(obj))
          /\ dependencyMap' = r.dm
          /\ depKeys' = r.keys
          /\ bare' = IF deps.given THEN bare \ {normId} ELSE bare \cup {normId}
    /\ nInjects' = nInjects + 1
    /\ UNCHANGED <<moduleMap, consumerMap, consumerKeys, requireCache, consumerPrefix,
                   runState, nRuns>>
    /\ UNCHANGED <<consumerRun, normState>>

\* files.forEach of loadServices, from file i on
RECURSIVE LoadServiceFiles(_, _, _)
LoadServiceFiles(files, i, r) ==
    IF i > Len(files) THEN r
    ELSE LET normId == normalizeServiceName(files[i])
             d == SetDeps(r.dm, r.keys, normId,
                          normalizeServiceNames(ModuleFiles[files[i]].params))
         IN LoadServiceFiles(files, i + 1,
                [mm |-> Put(r.mm, normId, Module(files[i])), dm |-> d.dm, keys |-> d.keys,
                 cache |-> r.cache \cup {files[i]}, bare |-> r.bare \ {normId}])

\* loadServices(dir)
LoadServices(dir) ==
    /\ Startup
    /\ LET r == LoadServiceFiles(ServiceDirs[dir], 1,
                    [mm |-> moduleMap, dm |-> dependencyMap, keys |-> depKeys,
                     cache |-> requireCache, bare |-> bare])
       IN /\ moduleMap' = r.mm
          /\ dependencyMap' = r.dm
          /\ depKeys' = r.keys
          /\ requireCache' = r.cache
          /\ bare' = r.bare
    /\ UNCHANGED <<injectedMap, consumerMap, consumerKeys, consumerPrefix, runState,
                   nInjects, nRuns>>
    /\ UNCHANGED <<consumerRun, normState>>

\* files.forEach of loadConsumers, from file i on
RECURSIVE LoadConsumerFiles(_, _, _, _)
LoadConsumerFiles(files, prefix, i, r) ==
    IF i > Len(files) THEN r
    ELSE LET key == prefix \o <<".">> \o normalizeServiceName(files[i])
             d == SetDeps(r.dm, r.keys, key,
                          normalizeServiceNames(ModuleFiles[files[i]].params))
         IN LoadConsumerFiles(files, prefix, i + 1,
                [cm |-> Put(r.cm, key, Module(files[i])), dm |-> d.dm, keys |-> d.keys,
                 ckeys |-> IF Has(r.cm, key) THEN r.ckeys ELSE Append(r.ckeys, key),
                 cprefix |-> Put(r.cprefix, key, prefix),
                 bare |-> r.bare \ {key}])

\* loadConsumers(dir, prefix)
LoadConsumers(dir, prefix) ==
    /\ Startup
    /\ LET r == LoadConsumerFiles(ConsumerDirs[dir], prefix, 1,
                    [cm |-> consumerMap, dm |-> dependencyMap, keys |-> depKeys,
                     ckeys |-> consumerKeys, cprefix |-> consumerPrefix, bare |-> bare])
       IN /\ consumerMap' = r.cm
          /\ dependencyMap' = r.dm
          /\ depKeys' = r.keys
          /\ consumerKeys' = r.ckeys
          /\ consumerPrefix' = r.cprefix
          /\ bare' = r.bare
    /\ UNCHANGED <<moduleMap, injectedMap, requireCache, runState, nInjects, nRuns>>
    /\ UNCHANGED <<consumerRun, normState>>

\* ------------------------------------------------- external resolution
\* !dependencyMap[depId] && !injectedMap[depId]
Unmet(dm, im, depId) == ~Has(dm, depId) /\ ~Has(im, depId)

\* loadExternalModule(parentId, id); subRequire throws when the module is
\* not in the load path
loadExternalModule(r, parentId, id) ==
    IF id \in ExternalModules
    THEN LET d == SetDeps(r.dm, r.keys, id, normalizeServiceNames(ModuleFiles[id].params))
         IN [r EXCEPT !.mm = Put(r.mm, id, Module(id)), !.dm = d.dm, !.keys = d.keys,
                      !.cache = r.cache \cup {id}, !.loaded = Append(r.loaded, id),
                      !.runAgain = TRUE]
    ELSE [r EXCEPT !.err = LoadError(id, parentId)]

\* deps.forEach of one key, from dependency i on; a throw ends the scan and
\* keeps what was loaded before it
RECURSIVE FetchDeps(_, _, _, _, _)
FetchDeps(r, im, id, deps, i) ==
    IF r.err # NoErr \/ i > Len(deps) THEN r
    ELSE FetchDeps(IF Unmet(r.dm, im, deps[i]) THEN loadExternalModule(r, id, deps[i]) ELSE r,
                   im, id, deps, i + 1)

\* for (var id in dependencyMap) over the keys present when the loop starts
RECURSIVE FetchKeys(_, _, _, _)
FetchKeys(r, im, keys, k) ==
    IF r.err # NoErr \/ k > Len(keys) THEN r
    ELSE FetchKeys(FetchDeps(r, im, keys[k], r.dm[keys[k]], 1), im, keys, k + 1)

\* fetchUnmetDependencies without the call that runs it again
fetchUnmetDependenciesOnePass(r, im) ==
    FetchKeys([r EXCEPT !.runAgain = FALSE], im, r.keys, 1)

\* fetchUnmetDependencies(): one scan, and again while a scan loaded something
RECURSIVE fetchUnmetDependencies(_, _)
fetchUnmetDependencies(r, im) ==
    LET s == FetchKeys([r EXCEPT !.runAgain = FALSE], im, r.keys, 1)
    IN IF s.err = NoErr /\ s.runAgain THEN fetchUnmetDependencies(s, im) ELSE s

\* ------------------------------------------------------ dependency groups
\* NodeDeps without the result of the getDependencies hook
NodeDepsStatic(id, mm, dm) == Range(dm[id])

\* the dependencies calculateDependencyTree hands to depCalc.addNode for a
\* key of dependencyMap
NodeDeps(id, mm, dm) ==
    IF Has(mm, id) /\ ModuleFiles[mm[id].v].hook.kind = "list"
    THEN Range(normalizeServiceNames(ModuleFiles[mm[id].v].hook.deps)) \cup Range(dm[id])
    ELSE Range(dm[id])

\* GraphNodes adding every injected id as a node without dependencies
GraphNodesInjectedLeaves(mm, dm, im) ==
    [id \in DOMAIN dm \cup DOMAIN im |->
        IF Has(im, id) THEN {} ELSE NodeDeps(id, mm, dm)]

\* the nodes added to depCalc: every key of dependencyMap, and every
\* injected id without a dependency list
GraphNodes(mm, dm, im) ==
    [id \in DOMAIN dm \cup DOMAIN im |->
        IF Has(dm, id) THEN NodeDeps(id, mm, dm) ELSE {}]

\* a getDependencies hook of a registered module throws
HookThrows(mm, dm) ==
    \E id \in DOMAIN dm : Has(mm, id) /\ ModuleFiles[mm[id].v].hook.kind = "throws"

\* depCalc.calcGroups(): the next group is every node not yet placed whose
\* dependencies are all placed; it throws when nodes remain and none is ready
RECURSIVE calcGroups(_, _, _)
calcGroups(nodes, placed, acc) ==
    LET ready == {n \in DOMAIN nodes \ placed : nodes[n] \subseteq placed}
    IN IF DOMAIN nodes \subseteq placed THEN [ok |-> TRUE, groups |-> acc, err |-> NoErr]
       ELSE IF ready = {}
            THEN [ok |-> FALSE, groups |-> <<>>, err |-> GraphError(DOMAIN nodes \ placed)]
            ELSE calcGroups(nodes, placed \cup ready, Append(acc, ready))

\* calculateDependencyTree ignoring initList
calculateDependencyTreeInferred(list, mm, dm, im) ==
    IF HookThrows(mm, dm)
    THEN [ok |-> FALSE, groups |-> <<>>, err |-> HookError]
    ELSE calcGroups(GraphNodes(mm, dm, im), {}, <<>>)

\* calculateDependencyTree(initList)
calculateDependencyTree(list, mm, dm, im) ==
    IF list.given
    THEN [ok |-> TRUE, groups |-> [i \in 1..Len(list.list) |-> {list.list[i]}], err |-> NoErr]
    ELSE IF HookThrows(mm, dm)
         THEN [ok |-> FALSE, groups |-> <<>>, err |-> HookError]
         ELSE calcGroups(GraphNodes(mm, dm, im), {}, <<>>)

\* ------------------------------------------------------------------- init
\* the orders callers force
InitLists == {Omitted, Given(<<api, app_log>>), Given(<<db, ghost>>), Given(<<ghost, db>>)}

\* callback(err): the completion callback of the run
Callback(err) ==
    /\ cbCount' = cbCount + 1
    /\ cbErr' = err
    /\ phase' = IF err = NoErr THEN "done" ELSE "failed"

\* init(initList, callback) up to the call of async.eachSeries
init(list) ==
    /\ Quiet
    /\ nRuns < MaxRuns
    /\ nRuns' = nRuns + 1
    /\ initList' = list
    /\ escaped' = "none"
    /\ firstFailed' = NoNode
    /\ late' = 0
    /\ LET f == fetchUnmetDependencies(
                    [mm |-> moduleMap, dm |-> dependencyMap, keys |-> depKeys,
                     cache |-> requireCache, loaded |-> <<>>,
                     err |-> NoErr, runAgain |-> FALSE], injectedMap)
           t == calculateDependencyTree(list, f.mm, f.dm, injectedMap)
           e == IF f.err # NoErr THEN f.err ELSE t.err
           groups == IF e = NoErr THEN t.groups ELSE <<>>
       IN /\ moduleMap' = f.mm
          /\ dependencyMap' = f.dm
          /\ depKeys' = f.keys
          /\ requireCache' = f.cache
          /\ loaded' = f.loaded
          /\ firstErr' = e
          /\ depGroups' = groups
          /\ status' = [g \in 1..Len(groups) |-> [n \in groups[g] |-> "pending"]]
          /\ args' = [g \in 1..Len(groups) |-> [n \in groups[g] |-> <<>>]]
          /\ nodeErr' = [g \in 1..Len(groups) |-> [n \in groups[g] |-> NoErr]]
          /\ IF e # NoErr \/ groups = <<>>
             THEN /\ cbCount' = 1
                  /\ cbErr' = e
                  /\ phase' = IF e = NoErr THEN "done" ELSE "failed"
                  /\ cur' = 0
             ELSE /\ cbCount' = 0
                  /\ cbErr' = NoErr
                  /\ phase' = "executing"
                  /\ cur' = 1
    /\ UNCHANGED <<injectedMap, consumerMap, consumerKeys, consumerPrefix, bare,
                   nInjects>>
    /\ UNCHANGED <<consumerRun, normState>>

\* ------------------------------------------------------------ execution
Terminal == {"ok", "failed", "skipped"}

\* async.each already called its callback with an error for this group
GroupFailed(st, g) == \E m \in DOMAIN st[g] : st[g][m] = "failed"

\* every member of the group called back without an error
GroupComplete(st, g) == \A m \in DOMAIN st[g] : st[g][m] \in {"ok", "skipped"}

\* moduleMap[deps[i]] || injectedMap[deps[i]]
ResolveParam(mm, im, d) ==
    IF Has(mm, d) THEN mm[d] ELSE Lookup(im, d)

\* the params array built for serviceId
Params(mm, dm, im, serviceId) ==
    [i \in 1..Len(dm[serviceId]) |-> ResolveParam(mm, im, dm[serviceId][i])]

\* NoNeedToInit looking at consumers only
NoNeedToInitConsumersOnly(im, cm, serviceId) == Has(cm, serviceId)

\* injectedMap[serviceId] || consumerMap[serviceId]
NoNeedToInit(im, cm, serviceId) == Has(im, serviceId) \/ Has(cm, serviceId)

\* a catch block that calls serviceCallback() without the error
CaughtErrorDropped(err) == NoErr

\* what the catch block of a synchronous init hands to serviceCallback
CaughtError(err) == err

\* the callback of async.each called for every error of the group
EachFailsEveryTime(st, g, err) == err # NoErr

\* async.each calls its callback (groupCallback) with the first error of
\* the group; st is the status before this member called back
EachFails(st, g, err) == err # NoErr /\ ~GroupFailed(st, g)

\* the callback of async.each called as soon as one member is done
EachSucceedsEarly(st, g, err) == err = NoErr /\ ~GroupFailed(st, g)

\* the callback of async.each called once every member is done, failed or not
EachSucceedsDespiteFailure(st, g, err) ==
    err = NoErr /\ \A m \in DOMAIN st[g] : st[g][m] \in Terminal

\* async.each calls its callback without an error once every member has
\* called back without one; st is the status after this member called back
EachSucceeds(st, g, err) ==
    err = NoErr /\ ~GroupFailed(st, g) /\ GroupComplete(st, g)

\* serviceCallback(err) of member n of group g, which ends as res: the
\* callback given to async.each, then groupCallback, then on to the next
\* group of async.eachSeries or to the run's callback
serviceCallback(g, n, res, err) ==
    LET st == [status EXCEPT ![g][n] = res]
    IN /\ status' = st
       /\ late' = IF GroupFailed(status, g) THEN late + 1 ELSE late
       /\ IF EachFails(status, g, err)
          THEN Callback(err) /\ UNCHANGED cur
          ELSE IF EachSucceeds(st, g, err)
               THEN IF g = Len(depGroups)
                    THEN Callback(NoErr) /\ UNCHANGED cur
                    ELSE cur' = g + 1 /\ UNCHANGED <<phase, cbCount, cbErr>>
               ELSE UNCHANGED <<phase, cbCount, cbErr, cur>>

\* history of what member n of the current group raised
Raised(n, err) ==
    /\ nodeErr' = [nodeErr EXCEPT ![cur][n] = err]
    /\ firstErr' = IF err # NoErr /\ firstErr = NoErr THEN err ELSE firstErr
    /\ firstFailed' = IF err # NoErr /\ firstErr = NoErr THEN n ELSE firstFailed

\* async.each applies the iterator to a member of the current group that
\* it has not visited yet
Visits(n) ==
    /\ cur > 0 /\ escaped = "none"
    /\ n \in depGroups[cur] /\ status[cur][n] = "pending"

\* the member needs no init
DispatchSkip(n) ==
    /\ Visits(n)
    /\ NoNeedToInit(injectedMap, consumerMap, n)
    /\ serviceCallback(cur, n, "skipped", NoErr)
    /\ UNCHANGED <<registry, initList, depGroups, args, escaped, nodeErr, firstErr,
                   firstFailed, loaded, nInjects, nRuns>>
    /\ UNCHANGED <<consumerRun, normState>>

\* the member is no module: moduleMap[serviceId] is undefined and
\* toLoad.init throws a TypeError outside every try block of init
DispatchUnknown(n) ==
    /\ Visits(n)
    /\ ~NoNeedToInit(injectedMap, consumerMap, n)
    /\ ~Has(moduleMap, n)
    /\ status' = [status EXCEPT ![cur][n] = "crashed"]
    /\ escaped' = IF cur = 1 THEN "caller" ELSE "inner"
    /\ phase' = "thrown"
    /\ firstErr' = IF firstErr = NoErr THEN TypeError ELSE firstErr
    /\ UNCHANGED <<registry, initList, depGroups, cur, args, cbCount, cbErr, nodeErr,
                   firstFailed, late, loaded, nInjects, nRuns>>
    /\ UNCHANGED <<consumerRun, normState>>

\* init takes no callback: it is applied inside try, and returns or throws
DispatchSync(n, err) ==
    /\ Visits(n)
    /\ ~NoNeedToInit(injectedMap, consumerMap, n)
    /\ Has(moduleMap, n)
    /\ ~ModuleFiles[moduleMap[n].v].isAsync
    /\ args' = [args EXCEPT ![cur][n] = Params(moduleMap, dependencyMap, injectedMap, n)]
    /\ Raised(n, err)
    /\ serviceCallback(cur, n, IF CaughtError(err) = NoErr THEN "ok" ELSE "failed",
                       CaughtError(err))
    /\ UNCHANGED <<registry, initList, depGroups, escaped, loaded, nInjects, nRuns>>
    /\ UNCHANGED <<consumerRun, normState>>

\* init takes a callback: it is applied with serviceCallback as its last
\* argument
DispatchAsync(n) ==
    /\ Visits(n)
    /\ ~NoNeedToInit(injectedMap, consumerMap, n)
    /\ Has(moduleMap, n)
    /\ ModuleFiles[moduleMap[n].v].isAsync
    /\ args' = [args EXCEPT ![cur][n] = Params(moduleMap, dependencyMap, injectedMap, n)]
    /\ status' = [status EXCEPT ![cur][n] = "running"]
    /\ UNCHANGED <<registry, initList, depGroups, cur, phase, cbCount, cbErr, escaped,
                   nodeErr, firstErr, firstFailed, late, loaded, nInjects, nRuns>>
    /\ UNCHANGED <<consumerRun, normState>>

\* an asynchronous init calls the callback it was given
Complete(n, err) ==
    /\ cur > 0
    /\ n \in depGroups[cur] /\ status[cur][n] = "running"
    /\ Raised(n, err)
    /\ serviceCallback(cur, n, IF err = NoErr THEN "ok" ELSE "failed", err)
    /\ UNCHANGED <<registry, initList, depGroups, args, escaped, loaded, nInjects, nRuns>>
    /\ UNCHANGED <<consumerRun, normState>>

\* unload(id): subRequire.unload(id) forgets the cached module; the maps
\* of the loader are not touched
Unload(id) ==
    /\ Startup
    /\ requireCache' = requireCache \ {id}
    /\ UNCHANGED <<moduleMap, dependencyMap, depKeys, injectedMap, consumerMap,
                   consumerKeys, consumerPrefix, bare, runState, nInjects, nRuns>>
    /\ UNCHANGED <<consumerRun, normState>>

\* --------------------------------------------------------- initConsumers
\* key.indexOf(prefix + '.') === 0
StartsWith(key, prefix) ==
    /\ Len(key) >= Len(prefix) + 1
    /\ SubSeq(key, 1, Len(prefix) + 1) = prefix \o <<".">>

\* the loop over consumerMap taking every key
ConsumerKeysOfAll(ckeys, prefix) == ckeys

\* for (var key in consumerMap) keeping the keys of the prefix
ConsumerKeysOf(ckeys, prefix) ==
    SelectSeq(ckeys, LAMBDA key : StartsWith(key, prefix))

\* getConsumers(prefix)
getConsumers(cm, ckeys, prefix) ==
    [i \in 1..Len(ConsumerKeysOf(ckeys, prefix)) |-> cm[ConsumerKeysOf(ckeys, prefix)[i]]]

\* depList of initConsumers
DepList(ckeys, prefix, list) ==
    IF list.given
    THEN [i \in 1..Len(list.list) |->
            prefix \o <<".">> \o normalizeServiceName(list.list[i])]
    ELSE ConsumerKeysOf(ckeys, prefix)

\* initConsumers(prefix, initList, callback) up to the first consumer;
\* async.eachSeries calls back at once on an empty list
initConsumers(prefix, list) ==
    /\ Quiet
    /\ nConsumerRuns < MaxConsumerRuns
    /\ nConsumerRuns' = nConsumerRuns + 1
    /\ cPrefix' = prefix
    /\ cGiven' = list
    /\ cRaised' = NoErr
    /\ LET depList == DepList(consumerKeys, prefix, list)
       IN /\ cList' = depList
          /\ cStatus' = [k \in 1..Len(depList) |-> "pending"]
          /\ cArgs' = [k \in 1..Len(depList) |-> <<>>]
          /\ cPhase' = IF depList = <<>> THEN "done" ELSE "executing"
          /\ cCbCount' = IF depList = <<>> THEN 1 ELSE 0
          /\ cCbErr' = NoErr
    /\ UNCHANGED <<registry, runState, nInjects, nRuns, normState>>

\* an iteration that visits any consumer not yet visited
NextConsumerAny(k) ==
    /\ cPhase = "executing"
    /\ k \in 1..Len(cList) /\ cStatus[k] = "pending"

\* async.eachSeries applies initConsumer to the k-th element once every
\* element before it has called back without an error
NextConsumer(k) ==
    /\ cPhase = "executing"
    /\ k \in 1..Len(cList) /\ cStatus[k] = "pending"
    /\ \A j \in 1..(k - 1) : cStatus[j] = "ok"

\* initCallback(err) of the k-th element, which ends as res: on to the next
\* element, or to initConsumerCallback and the caller's callback
initCallback(k, res, err) ==
    /\ cStatus' = [cStatus EXCEPT ![k] = res]
    /\ cRaised' = IF err # NoErr /\ cRaised = NoErr THEN err ELSE cRaised
    /\ IF err # NoErr
       THEN /\ cPhase' = "failed"
            /\ cCbCount' = cCbCount + 1
            /\ cCbErr' = err
       ELSE IF k = Len(cList)
            THEN /\ cPhase' = "done"
                 /\ cCbCount' = cCbCount + 1
                 /\ cCbErr' = NoErr
            ELSE UNCHANGED <<cPhase, cCbCount, cCbErr>>

\* the element before the k-th is a consumer whose init takes no callback:
\* the k-th is then visited inside that consumer's try block
InsideTryOfPrevious(k) ==
    /\ k > 1
    /\ Has(consumerMap, cList[k - 1])
    /\ ~ModuleFiles[consumerMap[cList[k - 1]].v].isAsync

\* the element is no consumer: consumerMap[serviceId] is undefined and
\* toLoad.init throws a TypeError outside the try block of initConsumer.
\* The exception leaves initConsumers or the callback that led here; thrown
\* inside the try block of the previous consumer it is caught there and
\* handed to that consumer's initCallback a second time, which async, by
\* its version, rejects with an exception of its own or passes on to the
\* caller's callback.
InitConsumerUnknown(k, passedOn) ==
    /\ NextConsumer(k)
    /\ ~Has(consumerMap, cList[k])
    /\ passedOn => InsideTryOfPrevious(k)
    /\ cStatus' = [cStatus EXCEPT ![k] = "crashed"]
    /\ IF passedOn
       THEN /\ cPhase' = "failed"
            /\ cCbCount' = cCbCount + 1
            /\ cCbErr' = TypeError
            /\ cRaised' = TypeError
       ELSE /\ cPhase' = "thrown"
            /\ UNCHANGED <<cCbCount, cCbErr, cRaised>>
    /\ UNCHANGED <<registry, runState, nInjects, nRuns, normState, cPrefix, cGiven,
                   cList, cArgs, nConsumerRuns>>

\* the consumer's init takes no callback
InitConsumerSync(k, err) ==
    /\ NextConsumer(k)
    /\ Has(consumerMap, cList[k])
    /\ ~ModuleFiles[consumerMap[cList[k]].v].isAsync
    /\ cArgs' = [cArgs EXCEPT ![k] = Params(moduleMap, dependencyMap, injectedMap, cList[k])]
    /\ initCallback(k, IF err = NoErr THEN "ok" ELSE "failed", err)
    /\ UNCHANGED <<registry, runState, nInjects, nRuns, normState, cPrefix, cGiven,
                   cList, nConsumerRuns>>

\* the consumer's init takes a callback
InitConsumerAsync(k) ==
    /\ NextConsumer(k)
    /\ Has(consumerMap, cList[k])
    /\ ModuleFiles[consumerMap[cList[k]].v].isAsync
    /\ cArgs' = [cArgs EXCEPT ![k] = Params(moduleMap, dependencyMap, injectedMap, cList[k])]
    /\ cStatus' = [cStatus EXCEPT ![k] = "running"]
    /\ UNCHANGED <<registry, runState, nInjects, nRuns, normState, cPhase, cPrefix,
                   cGiven, cList, cCbCount, cCbErr, cRaised, nConsumerRuns>>

\* an asynchronous consumer calls the callback it was given
InitConsumerComplete(k, err) ==
    /\ k \in 1..Len(cList) /\ cStatus[k] = "running"
    /\ initCallback(k, IF err = NoErr THEN "ok" ELSE "failed", err)
    /\ UNCHANGED <<registry, runState, nInjects, nRuns, normState, cPrefix, cGiven,
                   cList, cArgs, nConsumerRuns>>

\* every identifier a group can hold
AllIds == DOMAIN ModuleFiles \cup {ghost, mw \o <<".">> \o auth}

Next ==
    \/ \E id \in InjectIds, obj \in InjectObjects, deps \in InjectDeps : Inject(id, obj, deps)
    \/ \E dir \in DOMAIN ServiceDirs : LoadServices(dir)
    \/ \E dir \in ServiceRunConsumerDirs, prefix \in Prefixes : LoadConsumers(dir, prefix)
    \/ \E list \in InitLists : init(list)
    \/ \E n \in AllIds : DispatchSkip(n)
    \/ \E n \in AllIds : DispatchUnknown(n)
    \/ \E n \in AllIds, err \in {NoErr} \cup NodeErrs : DispatchSync(n, err)
    \/ \E n \in AllIds : DispatchAsync(n)
    \/ \E n \in AllIds, err \in {NoErr} \cup NodeErrs : Complete(n, err)

Spec == Init /\ [][Next]_vars

\* ------------------------------------------------------------- properties
\* init was applied for member n of group g
Invoked(g, n) == status[g][n] \in {"running", "ok", "failed"}

Groups == 1..Len(status)

\* C1: no node of a group has its init invoked before every node of each
\* earlier group has reached a terminal result (returned, thrown, called
\* back or skipped), whatever the order of the asynchronous completions.
GroupsStrictlySequential ==
    \A g \in Groups : \A n \in DOMAIN status[g] :
        Invoked(g, n) =>
            \A h \in 1..(g - 1) : \A m \in DOMAIN status[h] : status[h][m] \in Terminal

\* both asynchronous nodes of the second inferred group are invoked after
\* a group of a synchronous and an asynchronous node
GroupsStrictlySequentialWitness ==
    /\ ~initList.given
    /\ Len(status) >= 2
    /\ {db, app_log} \subseteq DOMAIN status[1]
    /\ {cache, api} \subseteq DOMAIN status[2]
    /\ status[2][cache] = "running" /\ status[2][api] = "ok"

\* the dependencies module B declares: the static list of dependencyMap and
\* the list its getDependencies hook returns
DeclaredDeps(B) ==
    Range(dependencyMap[B])
    \cup (IF ModuleFiles[moduleMap[B].v].hook.kind = "list"
          THEN Range(normalizeServiceNames(ModuleFiles[moduleMap[B].v].hook.deps))
          ELSE {})

\* C2: in inferred-order mode, every registered module A that a registered
\* module B declares as a dependency, statically or through its
\* getDependencies hook, is in a group of strictly smaller index than B's.
DependenciesInEarlierGroups ==
    (phase = "executing" /\ ~initList.given) =>
        \A B \in DOMAIN moduleMap : \A A \in DeclaredDeps(B) :
            /\ \E gb \in Groups : B \in depGroups[gb]
            /\ \E ga \in Groups : A \in depGroups[ga]
            /\ \A ga, gb \in Groups :
                (A \in depGroups[ga] /\ B \in depGroups[gb]) => ga < gb

\* an inferred run over the services directory: cache, whose hook names
\* db, and api, whose init takes appLog, are placed after db and app-log
DependenciesInEarlierGroupsWitness ==
    /\ phase = "executing" /\ ~initList.given
    /\ Len(depGroups) >= 2
    /\ {db, app_log} \subseteq depGroups[1]
    /\ {cache, api} \subseteq depGroups[2]

\* A depends on B and B depends on A
HasCycle(dm) ==
    \E A, B \in DOMAIN dm : A # B /\ B \in Range(dm[A]) /\ A \in Range(dm[B])

\* C3: when init without a forced order reaches graph building (external
\* resolution succeeded, no hook threw) on a registry with a dependency
\* cycle, it returns having called the callback once with the cycle error,
\* and with no group to execute, so that no node's init is invoked.
CycleFailsRun ==
    [][(nRuns' = nRuns + 1 /\ ~initList'.given /\ HasCycle(dependencyMap')
        /\ firstErr'.kind \notin {"load", "hook"})
       => (/\ phase' = "failed"
           /\ cbCount' = 1
           /\ cbErr'.kind = "cycle"
           /\ depGroups' = <<>>
           /\ status' = <<>>)]_vars

\* a run failed with the cycle error of app-log (injected with the
\* dependency list [api]) and api, whose init takes appLog
CycleFailsRunWitness ==
    /\ phase = "failed"
    /\ cbErr.kind = "cycle"
    /\ {app_log, api} \subseteq cbErr.ids
    /\ HasCycle(dependencyMap)

\* C4: once a node of group g has failed, no node of a later group has its
\* init invoked, whatever the siblings of the failed node do afterwards.
NoStartAfterFailure ==
    \A g \in Groups : \A n \in DOMAIN status[g] :
        status[g][n] = "failed" =>
            \A h \in (g + 1)..Len(status) : \A m \in DOMAIN status[h] :
                status[h][m] = "pending"

\* a sibling of a failed node completed after the failure, and a later
\* group exists
NoStartAfterFailureWitness ==
    /\ late >= 1
    /\ cur > 0 /\ cur < Len(depGroups)
    /\ \E n \in DOMAIN status[cur] : status[cur][n] = "failed"
    /\ \E n \in DOMAIN status[cur] : status[cur][n] = "ok"

\* C5: the completion callback is invoked at most once per run; a failed
\* run passed it the first error raised (by external resolution, graph
\* building or a node), a completed run passed it no error.
CallbackOnceWithFirstError ==
    /\ cbCount <= 1
    /\ phase = "executing" => cbCount = 0
    /\ phase = "failed" => (cbCount = 1 /\ cbErr # NoErr /\ cbErr = firstErr)
    /\ phase = "done" => (cbCount = 1 /\ cbErr = NoErr /\ firstErr = NoErr)
    /\ firstErr.kind \in {"load", "cycle", "hook", "node"} => phase = "failed"

\* two nodes of one group failed with different errors, the second after
\* the callback had been invoked
CallbackOnceWithFirstErrorWitness ==
    /\ late >= 1
    /\ cbCount = 1
    /\ \E n, m \in DOMAIN nodeErr[cur] :
        /\ n # m
        /\ nodeErr[cur][n] # NoErr /\ nodeErr[cur][m] # NoErr
        /\ nodeErr[cur][n] # nodeErr[cur][m]

\* C6 as stated: a failing node, synchronous or asynchronous, makes the run
\* fail with an error that identifies the failing node.
NodeErrorIdentifiesNode ==
    firstFailed # NoNode => (phase = "failed" /\ firstFailed \in cbErr.ids)

\* C6 as amended: a failing node, synchronous (its init throws) or
\* asynchronous (it calls back with an error), makes the run fail, and the
\* callback receives, unchanged, the very error value the first failing
\* node raised; the loader adds no identifier of the node to it.
NodeErrorPassedThrough ==
    firstFailed # NoNode =>
        /\ phase = "failed"
        /\ cbCount = 1
        /\ cbErr = nodeErr[cur][firstFailed]
        /\ cbErr \in NodeErrs

\* a synchronous and an asynchronous node of one group both failed, the
\* synchronous one first
NodeErrorPassedThroughWitness ==
    /\ firstFailed = db
    /\ nodeErr[cur][db] # NoErr
    /\ app_log \in DOMAIN nodeErr[cur] /\ nodeErr[cur][app_log] # NoErr

\* C7: under a forced order [x1, ..., xn] the groups are the singletons
\* {x1}, ..., {xn} in that sequence, whatever the dependencies among the xk,
\* and x(k+1) is visited only after xk has completed; the graph is not
\* built, so the run never fails with a cycle error or a hook's exception.
ForcedOrderSequential ==
    /\ initList.given => firstErr.kind \notin {"cycle", "hook"}
    /\ (initList.given /\ cur > 0) =>
        /\ depGroups = [k \in 1..Len(initList.list) |-> {initList.list[k]}]
        /\ \A k \in 1..(Len(initList.list) - 1) :
            status[k + 1][initList.list[k + 1]] # "pending"
                => status[k][initList.list[k]] \in {"ok", "skipped"}

\* the forced order [api, app-log] ran api before app-log although api
\* depends on app-log
ForcedOrderSequentialWitness ==
    /\ initList = Given(<<api, app_log>>)
    /\ Has(moduleMap, api) /\ app_log \in Range(dependencyMap[api])
    /\ Len(status) = 2
    /\ status[1][api] = "ok"
    /\ status[2][app_log] = "ok"
    /\ phase = "done"

\* an identifier that resolves to no module, injected record or consumer
Unresolved(mm, im, cm, id) == ~Has(mm, id) /\ ~Has(im, id) /\ ~Has(cm, id)

\* C8: a run with a forced order that holds an unresolved identifier goes
\* from graph building to Failed: it returns having called the callback
\* with an error, and with no node's init invoked.
ForcedUnknownFailsRun ==
    [][(nRuns' = nRuns + 1 /\ initList'.given
        /\ \E k \in 1..Len(initList'.list) :
            Unresolved(moduleMap', injectedMap', consumerMap', initList'.list[k]))
       => (phase' = "failed" /\ cbCount' = 1 /\ cbErr' # NoErr /\ status' = <<>>)]_vars

\* C9: no exception leaves init: every failure of a run reaches the caller
\* as the error argument of the completion callback.
InitNeverThrows ==
    /\ escaped = "none"
    /\ phase # "thrown"

\* C10: while a run executes, every argument of an invoked init whose
\* dependency identifier has an injected record is the injected object,
\* also when a module of that identifier is in the module map.
InjectedObjectWins ==
    phase = "executing" =>
        \A g \in Groups : \A n \in DOMAIN status[g] :
            Invoked(g, n) =>
                \A i \in 1..Len(args[g][n]) :
                    Has(injectedMap, dependencyMap[n][i])
                        => args[g][n][i] = injectedMap[dependencyMap[n][i]]

\* C11: during a run of init, a node that is an injected record or a
\* consumer never has its init entered: the service pass leaves it pending
\* or skips it, also when a module of the same identifier is registered.
InjectedAndConsumersNeverInitialised ==
    phase = "executing" =>
        \A g \in Groups : \A n \in DOMAIN status[g] :
            (Has(injectedMap, n) \/ Has(consumerMap, n))
                => status[g][n] \in {"pending", "skipped"}

\* a run whose groups hold a consumer and an injected record that have both
\* been skipped, while a module of the consumer's group was initialised
InjectedAndConsumersNeverInitialisedWitness ==
    /\ phase = "executing"
    /\ \E g \in Groups : \E c, m \in DOMAIN status[g] :
        /\ Has(consumerMap, c) /\ status[g][c] = "skipped"
        /\ Has(moduleMap, m) /\ status[g][m] = "ok"
    /\ \E g \in Groups : \E i \in DOMAIN status[g] :
        Has(injectedMap, i) /\ status[g][i] = "skipped"

\* get(id)
get(mm, id) == Lookup(mm, id)

\* the raw identifiers callers pass to get
RawIds == {db, appLog, app_log, ext}

\* the module or, without one, the injected object registered under the
\* canonical form of a raw identifier
Registered(mm, im, id) ==
    IF Has(mm, normalizeServiceName(id))
    THEN mm[normalizeServiceName(id)]
    ELSE Lookup(im, normalizeServiceName(id))

\* C12: in every registry state and for every raw identifier, get returns
\* the module or the injected object registered under the canonical form of
\* the identifier (undefined when there is neither), so that two raw forms
\* of one canonical identifier get the same result.
GetReturnsCanonicalEntry ==
    \A id \in RawIds : get(moduleMap, id) = Registered(moduleMap, injectedMap, id)

\* every identifier of every dependency list is a key of the dependency map
\* or of the injected map
AllMet(dm, im) ==
    \A id \in DOMAIN dm : \A d \in Range(dm[id]) : Has(dm, d) \/ Has(im, d)

NoDuplicates(seq) == \A i, j \in 1..Len(seq) : seq[i] = seq[j] => i = j

\* C19: when the external resolution of a run returns without error, every
\* identifier of every dependency list, the lists of the modules it loaded
\* included, is a key of the dependency map or of the injected map; it
\* loaded no module twice, only modules that were unmet before, and every
\* module it loaded is registered.
ResolutionReachesFixedPoint ==
    [][(nRuns' = nRuns + 1 /\ firstErr'.kind # "load")
       => (/\ AllMet(dependencyMap', injectedMap')
           /\ NoDuplicates(loaded')
           /\ \A i \in 1..Len(loaded') :
               /\ Unmet(dependencyMap, injectedMap, loaded'[i])
               /\ Has(dependencyMap', loaded'[i])
               /\ Has(moduleMap', loaded'[i]))]_vars

\* a resolution that loaded ext for web and then, in its next scan, base
\* for ext, and returned without error
ResolutionReachesFixedPointWitness ==
    /\ nRuns > 0
    /\ loaded = <<ext, base>>
    /\ firstErr.kind # "load"
    /\ base \in Range(dependencyMap[ext])

\* ------------------------------------------- registry calls at startup -----
\* what callers pass to unload, and the identifiers they inject over
\* loaded services
UnloadIds == {db, app_log}
RegistryInjectIds == {api, appLog}

NextRegistry ==
    \/ \E id \in RegistryInjectIds, obj \in InjectObjects, deps \in InjectDeps :
        Inject(id, obj, deps)
    \/ LoadServices("services")
    \/ \E id \in UnloadIds : Unload(id)
    \/ init(Omitted)
    \/ \E n \in AllIds : DispatchSkip(n)
    \/ \E n \in AllIds, err \in {NoErr} \cup NodeErrs : DispatchSync(n, err)
    \/ \E n \in AllIds : DispatchAsync(n)
    \/ \E n \in AllIds, err \in {NoErr} \cup NodeErrs : Complete(n, err)

SpecRegistry == Init /\ [][NextRegistry]_vars

\* C13: once unload(id) was called for a registered service and id was not
\* loaded again, the registry holds no module under id: get(id) is
\* undefined, and no init of a later run is handed the old module.
UnloadRemovesModule ==
    /\ \A id \in UnloadIds :
        id \notin requireCache => get(moduleMap, id) = Undefined
    /\ phase = "executing" =>
        \A g \in Groups : \A n \in DOMAIN status[g] : \A i \in 1..Len(args[g][n]) :
            args[g][n][i].t = "module" => args[g][n][i].v \in requireCache

\* C14: an identifier last injected without a dependency list, and not
\* registered again since, has no dependencies: its list in the dependency
\* map, which external resolution scans, is absent or empty, and the node
\* graph building adds for it has no dependencies, whatever was registered
\* under the identifier before.
BareInjectHasNoDependencies ==
    \A id \in bare :
        /\ Has(dependencyMap, id) => dependencyMap[id] = <<>>
        /\ GraphNodes(moduleMap, dependencyMap, injectedMap)[id] = {}

\* ------------------------------------------ normalizeServiceName on its own
\* one character of each class the regular expressions tell apart: a lower
\* case letter, a capital, and the three separators
Alphabet == {"a", "B", "-", "_", " "}
Strings == UNION {[1..n -> Alphabet] : n \in 0..MaxLen}

\* names as lists of lower-case words, and their spellings
foo == <<"f", "o", "o">>
bar == <<"b", "a", "r">>
Words == {foo, bar, <<"a">>}
Names == UNION {[1..n -> Words] : n \in 1..MaxWords}
Styles == {"camel", "dash", "snake", "space", "upperSnake"}

UpperOf(c) == IF \E u \in UpperChars : LowerOf[u] = c
              THEN CHOOSE u \in UpperChars : LowerOf[u] = c
              ELSE c
ToUpperCase(w) == [i \in 1..Len(w) |-> UpperOf(w[i])]
Capitalize(w) == <<UpperOf(Head(w))>> \o Tail(w)

RECURSIVE Join(_, _)
Join(ws, sep) ==
    IF Len(ws) = 1 THEN Head(ws) ELSE Head(ws) \o sep \o Join(Tail(ws), sep)

Spell(style, ws) ==
    CASE style = "camel" ->
            Join([i \in 1..Len(ws) |-> IF i = 1 THEN ws[i] ELSE Capitalize(ws[i])], <<>>)
      [] style = "dash" -> Join(ws, <<"-">>)
      [] style = "snake" -> Join(ws, <<"_">>)
      [] style = "space" -> Join(ws, <<" ">>)
      [] style = "upperSnake" -> Join([i \in 1..Len(ws) |-> ToUpperCase(ws[i])], <<"_">>)

\* a string, or a name, is chosen
InitNormalize ==
    /\ InitLoader
    /\ stage = 0 /\ once = <<>> /\ twice = <<>> /\ spelled = NoSpelling
    /\ \/ str \in Strings /\ words = <<>>
       \/ str = <<>> /\ words \in Names

\* normalizeServiceName(str)
Normalize ==
    /\ words = <<>> /\ stage = 0
    /\ once' = normalizeServiceName(str)
    /\ stage' = 1
    /\ UNCHANGED <<registry, runState, nInjects, nRuns, consumerRun, str, twice, words,
                   spelled>>

\* normalizeServiceName applied to its own result
NormalizeAgain ==
    /\ words = <<>> /\ stage = 1
    /\ twice' = normalizeServiceName(once)
    /\ stage' = 2
    /\ UNCHANGED <<registry, runState, nInjects, nRuns, consumerRun, str, once, words,
                   spelled>>

\* normalizeServiceName applied to one spelling of the name
NormalizeSpelling(style) ==
    /\ words # <<>> /\ style \notin DOMAIN spelled
    /\ spelled' = [k \in DOMAIN spelled \cup {style} |->
                       IF k = style THEN normalizeServiceName(Spell(style, words))
                       ELSE spelled[k]]
    /\ UNCHANGED <<registry, runState, nInjects, nRuns, consumerRun, str, stage, once,
                   twice, words>>

NextNormalize ==
    \/ Normalize
    \/ NormalizeAgain
    \/ \E style \in Styles : NormalizeSpelling(style)

SpecNormalize == InitNormalize /\ [][NextNormalize]_vars

\* C17 as stated: the camel-case, dash-case and upper-snake-case spellings
\* of one name normalize to the same string.
SpellingsNormalizeAlike ==
    \A a, b \in DOMAIN spelled \cap {"camel", "dash", "upperSnake"} :
        spelled[a] = spelled[b]

\* C17 as amended: the camel-case, dash-case, snake_case and space-separated
\* spellings of a name of lower-case words all normalize to its dash-case
\* spelling; the upper-snake-case spelling normalizes to a different string,
\* in which every letter of the name is preceded by a dash.
LowerSpellingsNormalizeAlike ==
    /\ \A a \in DOMAIN spelled \cap {"camel", "dash", "snake", "space"} :
        spelled[a] = Spell("dash", words)
    /\ "upperSnake" \in DOMAIN spelled =>
        /\ spelled["upperSnake"] # Spell("dash", words)
        /\ spelled["upperSnake"] =
            Join([i \in 1..Len(words) |->
                    [j \in 1..(2 * Len(words[i])) |->
                        IF j % 2 = 1 THEN "-" ELSE words[i][j \div 2]]], <<>>)

\* the spellings fooBar, foo-bar, foo_bar and FOO_BAR were all normalized
LowerSpellingsNormalizeAlikeWitness ==
    /\ words = <<foo, bar>>
    /\ {"camel", "dash", "snake", "upperSnake"} \subseteq DOMAIN spelled
    /\ spelled["camel"] = <<"f", "o", "o", "-", "b", "a", "r">>

\* C18: normalizeServiceName is idempotent on every string over lower-case
\* letters, capitals, dashes, underscores and whitespace.
NormalizeIdempotent ==
    stage = 2 => twice = once

\* a string with a capital and two separators was normalized twice, and
\* the first application changed it
NormalizeIdempotentWitness ==
    /\ stage = 2
    /\ str = <<"B", "_", "-">>
    /\ once # str

\* --------------------------------------------------- runs of initConsumers
NextConsumers ==
    \/ \E dir \in DOMAIN ConsumerDirs, prefix \in ConsumerPrefixes : LoadConsumers(dir, prefix)
    \/ LoadServices("services")
    \/ \E prefix \in ConsumerPrefixes, list \in ConsumerLists : initConsumers(prefix, list)
    \/ \E k \in 1..Len(cList), passedOn \in BOOLEAN : InitConsumerUnknown(k, passedOn)
    \/ \E k \in 1..Len(cList), err \in {NoErr} \cup NodeErrs : InitConsumerSync(k, err)
    \/ \E k \in 1..Len(cList) : InitConsumerAsync(k)
    \/ \E k \in 1..Len(cList), err \in {NoErr} \cup NodeErrs : InitConsumerComplete(k, err)

SpecConsumers == Init /\ [][NextConsumers]_vars

\* the place of a key in the registration order
PlaceOf(key) == CHOOSE i \in 1..Len(consumerKeys) : consumerKeys[i] = key

\* C15: a run of initConsumers visits the consumers of the list it was
\* given, in the order of that list, or without a list the registered
\* consumers in registration order; the init of an element is entered only
\* after every element before it has completed without error, so one at a
\* time and none after the first failure; the callback is invoked at most
\* once, and a failed run passed it the error of the failing consumer.
ConsumersStrictlySequential ==
    /\ cGiven.given =>
        cList = [i \in 1..Len(cGiven.list) |->
                    cPrefix \o <<".">> \o normalizeServiceName(cGiven.list[i])]
    /\ (~cGiven.given /\ nConsumerRuns > 0) =>
        /\ \A i \in 1..Len(cList) : Has(consumerMap, cList[i])
        /\ \A i, j \in 1..Len(cList) : i < j => PlaceOf(cList[i]) < PlaceOf(cList[j])
    /\ \A k \in 2..Len(cList) : cStatus[k] # "pending" => cStatus[k - 1] = "ok"
    /\ Cardinality({k \in 1..Len(cList) : cStatus[k] = "running"}) <= 1
    /\ cCbCount <= 1
    /\ cPhase = "executing" => cCbCount = 0
    /\ cPhase = "done" => (cCbCount = 1 /\ cCbErr = NoErr /\ cRaised = NoErr)
    /\ cPhase = "failed" => (cCbCount = 1 /\ cCbErr # NoErr /\ cCbErr = cRaised)
    /\ cRaised # NoErr => cPhase = "failed"

\* without a list, auth (registered first, synchronous) completed and then
\* cors (asynchronous) failed
ConsumersStrictlySequentialWitness ==
    /\ ~cGiven.given
    /\ cList = <<mw \o <<".">> \o auth, mw \o <<".">> \o cors>>
    /\ cStatus = <<"ok", "failed">>
    /\ cPhase = "failed"

\* the keys of the consumers registered under the prefix
RegisteredUnder(prefix) ==
    {key \in DOMAIN consumerMap : consumerPrefix[key] = prefix}

\* the keys of the consumers registered under the prefix or under a prefix
\* that begins with it and a dot
RegisteredUnderOrBelow(prefix) ==
    {key \in DOMAIN consumerMap :
        consumerPrefix[key] = prefix \/ StartsWith(consumerPrefix[key], prefix)}

RunStep ==
    \/ \E n \in AllIds : DispatchSkip(n)
    \/ \E n \in AllIds : DispatchUnknown(n)
    \/ \E n \in AllIds, err \in {NoErr} \cup NodeErrs : DispatchSync(n, err)
    \/ \E n \in AllIds : DispatchAsync(n)
    \/ \E n \in AllIds, err \in {NoErr} \cup NodeErrs : Complete(n, err)

\* async.each visits every member of a group in one synchronous loop, and
\* every asynchronous init that was started eventually calls back
SpecLive == Init /\ [][Next]_vars /\ WF_vars(RunStep)

\* every identifier of every group is a module, an injected record or a
\* consumer
GroupsResolve ==
    \A g \in 1..Len(depGroups) : \A n \in depGroups[g] :
        ~Unresolved(moduleMap, injectedMap, consumerMap, n)

\* C20: a run whose external resolution and graph building succeeded, and
\* whose started asynchronous nodes all call back, eventually invokes its
\* completion callback.
RunEventuallyCallsBack ==
    (phase = "executing") ~> (cbCount = 1)

\* the same for the runs whose groups hold resolvable identifiers only,
\* with the join of a group: the run leaves a group only when every member
\* has completed, and calls back without error only after every node of
\* every group has
ResolvableRunEventuallyCallsBack ==
    /\ (phase = "executing" /\ GroupsResolve) ~> (cbCount = 1)
    /\ [](phase = "done" =>
            \A g \in Groups : \A n \in DOMAIN status[g] : status[g][n] \in {"ok", "skipped"})

====
